---- MODULE Spec2Model ----
(***************************************************************************)
(* A model of src/index.js (class Random and the helper unwrap): the lazy  *)
(* generator algebra (unwrap, constant, sequence, array, object, join,     *)
(* transform) and the numeric generators (number, float, mountains, wave). *)
(*                                                                         *)
(* Math.random() is a nondeterministic draw k / Grid with k in 0..Grid-1,  *)
(* Grid a power of two, so every draw is a binary fraction in [0, 1) as    *)
(* the ones Math.random() returns.  Numbers of small magnitude are kept in *)
(* fixed point, as integers counting units of 1 / Scale; on such values    *)
(* the binary64 operations of the code are exact, so integer arithmetic on *)
(* the units is what the code computes.                                    *)
(***************************************************************************)
EXTENDS Integers, Sequences, FiniteSets, TLC

\* ------------------------------------------------------------------ bounds
\* Math.random() draws are multiples of 2^-GridBits.
GridBits == 2
\* Largest maxHeight, besides the default, a mountains thunk is built with.
MaxHeightBound == 7
\* number(min, max) is built with min and max at most NumBound away from 0
\* or from 2^52.
NumBound == 3
\* float(min, max, precision) is built with |min|, |max| <= FloatBound and
\* precision <= MaxPrecision.
FloatBound == 1
MaxPrecision == 1
\* wave(count, size, repeat, shift, noise): size <= MaxSize, noise <= MaxNoise,
\* and the thunk is invoked at most MaxWaveCalls times.
MaxSize == 2
MaxNoise == 2
MaxWaveCalls == 3
\* At most MaxHeap functions are made; the caller invokes a sequence thunk at
\* most MaxSeqCalls times and any other function at most MaxCalls times.
MaxHeap == 3
MaxCalls == 2
MaxSeqCalls == 7
\* sequence(data) is built with an array of at most MaxLen elements; array
\* thunks have a length of at most MaxLength, and at most MaxArrays are made.
MaxLen == 3
MaxLength == 2
MaxArrays == 1
\* Over one sequence thunk at most MaxCombinators combinator thunks are made.
MaxCombinators == 1

\* --------------------------------------------------------- program constants
STEP_MAX == 5
MAX_HEIGHT_DEFAULT == 50
STEP_CHANGE_DEFAULT == 10

\* ------------------------------------------------------------------ helpers
RECURSIVE Pow(_, _)
Pow(b, e) == IF e = 0 THEN 1 ELSE b * Pow(b, e - 1)

Grid == Pow(2, GridBits)

\* The values k of a draw k / Grid of Math.random().
Draws == 0 .. (Grid - 1)

\* Math.random() * x for the draw k / Grid and x in units of 1 / Grid, x a
\* whole number.
MulRandom(k, x) == (k * x) \div Grid

Abs(x) == IF x < 0 THEN -x ELSE x

\* Numbers that may be large are records [big, u] standing for
\* big * 2^52 + u / Scale, with big in {0, 1} and u >= 0 when big = 1: either a
\* number of small magnitude, or a number of the binade [2^52, 2^53), where
\* the binary64 numbers are exactly the integers.
Scale == 2 * Grid

Num(b, u) == [big |-> b, u |-> u]

\* The whole number n.
Small(n) == Num(0, n * Scale)

\* Math.floor on units: the largest multiple of Scale that is <= u.
FloorUnits(u) == (u \div Scale) * Scale

\* Round to nearest, ties to even, to a whole number (a multiple of Scale):
\* the rounding of binary64 in [2^52, 2^53).
RoundTiesEven(u) ==
  LET lo == FloorUnits(u)
      rem == u - lo
  IN  IF 2 * rem < Scale THEN lo
      ELSE IF 2 * rem > Scale THEN lo + Scale
      ELSE IF (lo \div Scale) % 2 = 0 THEN lo ELSE lo + Scale

\* The binary64 result of an operation whose exact result is x.
Round(x) == IF x.big = 1 THEN Num(1, RoundTiesEven(x.u)) ELSE x

JsAdd(x, y) == Round(Num(x.big + y.big, x.u + y.u))
JsSub(x, y) == Round(Num(x.big - y.big, x.u - y.u))
\* x * y for two numbers of small magnitude.
JsMul(x, y) == Num(0, (x.u * y.u) \div Scale)
JsFloor(x) == Num(x.big, FloorUnits(x.u))

\* Math.random() for the draw k / Grid.
Random(k) == Num(0, k * (Scale \div Grid))

VARIABLES
  \* Random.mountains: the closure of one thunk (units of 1 / Grid).
  MAX_HEIGHT, STEP_CHANGE, currentHeight, slope,
  \* the values the thunk returned, the last two of them
  heights,
  \* Random.number: the closure of one thunk (max after max += 1), and the
  \* value it returned last (<<>> before the first invocation)
  nMin, nMax, nReturned,
  \* the arguments number was called with
  nArgs,
  \* Random.float: the closure of one thunk (min and max in units of
  \* 1 / Scale), and the value it returned last, in units of 10^-precision
  fMin, fMax, fPrecision, fReturned,
  \* Random.wave: the closure of one thunk
  wI, amplitude, frequency, phase, vShift, noiseShift,
  \* the noise argument, the values the thunk returned and the draws of
  \* Math.random() its invocations made
  wNoise, wReturned, wDraws,
  \* The functions made so far (by the factories of Random, or written by
  \* the caller), in order of creation; a function value refers to one by its
  \* position. A function can only refer to functions made before it.
  heap,
  \* for each function, the values its invocations returned, in order
  returned,
  \* the last operation of the caller: op is "new", "call" or "unwrap", arg
  \* the function called or the value unwrapped, val the result (the new
  \* function for "new"), trace the functions invoked while it ran, in order
  last

algVars == <<heap, returned, last>>
mtVars == <<MAX_HEIGHT, STEP_CHANGE, currentHeight, slope, heights>>
numVars == <<nMin, nMax, nReturned, nArgs>>
floatVars == <<fMin, fMax, fPrecision, fReturned>>
waveVars == <<wI, amplitude, frequency, phase, vShift, noiseShift,
              wNoise, wReturned, wDraws>>

numericVars == <<mtVars, numVars, floatVars, waveVars>>

vars == <<mtVars, numVars, floatVars, waveVars, algVars>>

\* The generators a specification does not exercise are never built.
NoMountains ==
  /\ MAX_HEIGHT = 0 /\ STEP_CHANGE = 0 /\ currentHeight = 0 /\ slope = 0
  /\ heights = <<>>
NoNumber ==
  /\ nMin = Small(0) /\ nMax = Small(0) /\ nReturned = <<>>
  /\ nArgs = [min |-> Small(0), max |-> Small(0)]
NoFloat == fMin = 0 /\ fMax = 0 /\ fPrecision = 0 /\ fReturned = <<>>
NoWave ==
  /\ wI = 0 /\ amplitude = 0 /\ frequency = 0 /\ phase = 0 /\ vShift = 0
  /\ noiseShift = [min |-> Small(0), max |-> Small(0)]
  /\ wNoise = 0 /\ wReturned = <<>> /\ wDraws = <<>>

\* ------------------------------------------------------------------ values
\* The values of the program: a tagged record for each type the generators
\* handle. A function value names a function of the heap.
VNum(n) == [k |-> "num", n |-> n]
VStr(s) == [k |-> "str", s |-> s]
VBool(b) == [k |-> "bool", b |-> b]
VUndef == [k |-> "undef"]
VFn(id) == [k |-> "fn", id |-> id]
VArr(e) == [k |-> "arr", e |-> e]
VObj(keys, vals) == [k |-> "obj", keys |-> keys, vals |-> vals]

\* The truthiness of a value, as && and || test it.
Truthy(v) ==
  CASE v.k = "num" -> v.n # 0
    [] v.k = "str" -> v.s # ""
    [] v.k = "bool" -> v.b
    [] v.k = "undef" -> FALSE
    [] OTHER -> TRUE

\* input && input.call (line 29): only functions have a call property.
Callable(v) == Truthy(v) /\ v.k = "fn"

\* v.length, for the values that have one (-1 stands for undefined).
Length(v) ==
  CASE v.k = "arr" -> Len(v.e)
    [] v.k = "str" -> Len(v.s)
    [] OTHER -> -1

\* v[i] for a whole number i >= 0, v not undefined: an element of an array, a
\* character of a string, undefined for anything else.
Index(v, i) ==
  CASE v.k = "arr" -> IF i < Len(v.e) THEN v.e[i + 1] ELSE VUndef
    [] v.k = "str" ->
         IF i < Len(v.s) THEN VStr(SubSeq(v.s, i + 1, i + 1)) ELSE VUndef
    [] OTHER -> VUndef

\* [].concat.apply([], arguments) (lines 147, 165): the arguments in one
\* array, an argument that is an array giving its elements.
RECURSIVE Flatten(_)
Flatten(args) ==
  IF args = <<>> THEN <<>>
  ELSE (IF Head(args).k = "arr" THEN Head(args).e ELSE <<Head(args)>>)
       \o Flatten(Tail(args))

\* The decimal digits of a whole number, as String(n) gives them.
RECURSIVE Digits(_)
Digits(n) ==
  IF n < 0 THEN "-" \o Digits(-n)
  ELSE IF n < 10 THEN SubSeq("0123456789", n + 1, n + 1)
  ELSE Digits(n \div 10) \o Digits(n % 10)

\* The source text of a function the caller writes, () => v.
UserSource(v) ==
  "() => " \o (CASE v.k = "num" -> Digits(v.n)
                 [] v.k = "str" -> "'" \o v.s \o "'"
                 [] v.k = "bool" -> (IF v.b THEN "true" ELSE "false")
                 [] v.k = "fn" -> "f" \o Digits(v.id)
                 [] OTHER -> "undefined")

\* Function.prototype.toString: the source text of the function.
FnSource(f) ==
  CASE f.kind = "fn" -> f.src
    [] f.kind = "constant" -> "() => input"
    [] f.kind = "sequence" -> "() => data[i++ % data.length]"
    [] f.kind = "transform" ->
         "() => {\n      return callback(unwrap(input));\n    }"
    [] f.kind = "join" ->
         "function() {\n      return input.map(function(o) {\n"
         \o "        return unwrap(o);\n      })\n      .join('');\n    }"
    [] f.kind = "object" ->
         "() => {\n      let result = {};\n\n      for (let key in input) {\n"
         \o "        if (input.hasOwnProperty(key))\n"
         \o "          result[key] = unwrap(input[key]);\n      }\n\n"
         \o "      return result;\n    }"
    [] f.kind = "array" ->
         "() => {\n      const result = [];\n\n"
         \o "      for (let i = 0; i < length; ++i)\n"
         \o "        result.push(unwrap(items && items[i] || items || i));\n\n"
         \o "      return result;\n    }"

\* String(v), and Array.prototype.join: the strings of the elements, undefined
\* giving the empty string, with sep between them.
RECURSIVE ToStr(_, _), JoinStrings(_, _, _)
ToStr(h, v) ==
  CASE v.k = "num" -> Digits(v.n)
    [] v.k = "str" -> v.s
    [] v.k = "bool" -> (IF v.b THEN "true" ELSE "false")
    [] v.k = "undef" -> "undefined"
    [] v.k = "fn" -> FnSource(h[v.id])
    [] v.k = "arr" -> JoinStrings(h, v.e, ",")
    [] v.k = "obj" -> "[object Object]"

JoinStrings(h, vs, sep) ==
  IF vs = <<>> THEN ""
  ELSE (IF Head(vs).k = "undef" THEN "" ELSE ToStr(h, Head(vs)))
       \o (IF Len(vs) > 1 THEN sep \o JoinStrings(h, Tail(vs), sep) ELSE "")

\* The callbacks a caller passes to transform: d => String(d), d => d.
Callbacks == {"String", "identity"}
Apply(callback, h, v) ==
  IF callback = "String" THEN VStr(ToStr(h, v)) ELSE v

\* ---------------------------------------------------------------- functions
\* The function objects of the heap, by the factory that made them, each with
\* what its closure captured.
\*   fn         a function the caller wrote, () => ret (no CONSTANT property)
\*   constant   Random.constant(input): () => input, with CONSTANT = true
\*   sequence   Random.sequence(data): data resolved, and the counter i
\*   array, object, join, transform: the thunks of these combinators
UserFn(v) == [kind |-> "fn", ret |-> v, src |-> UserSource(v)]

\* Mutant: constant() forgets to set the marker.
NoConstantMarker(f) == FALSE

\* input.CONSTANT (line 30): set by Random.constant alone (line 86).
HasConstantMarker(f) == f.kind = "constant"

\* The element source of slot i of an array thunk (line 56):
\* items && items[i] || items || i.
ArraySource(items, i) ==
  LET entry == IF Truthy(items) THEN Index(items, i) ELSE items
      whole == IF Truthy(entry) THEN entry ELSE items
  IN  IF Truthy(whole) THEN whole ELSE VNum(i)

\* Mutant: the counter is not wrapped.
SeqElemNoWrap(data, i) == Index(data, i)

\* data[i % data.length] (line 289); i % undefined and i % 0 are NaN, and
\* data[NaN] is undefined.
SeqElem(data, i) ==
  IF Length(data) <= 0 THEN VUndef ELSE Index(data, i % Length(data))

\* An evaluation threads the state st = [heap, returned, trace] through the
\* calls it makes: trace lists the functions invoked so far.
Enter(st, id) == [st EXCEPT !.trace = Append(@, id)]
Return(st, id, v) ==
  [st |-> [st EXCEPT !.returned[id] = Append(@, v)], val |-> v]

RECURSIVE Invoke(_, _), unwrap(_, _), UnwrapEach(_, _)

\* unwrap(input), lines 27-35: call until there is nothing left to call,
\* a function with the CONSTANT marker being called once and its result
\* returned as it is.
unwrap(st, input) ==
  IF Callable(input)
  THEN IF HasConstantMarker(st.heap[input.id])
       THEN Invoke(st, input.id)
       ELSE LET r == Invoke(st, input.id) IN unwrap(r.st, r.val)
  ELSE [st |-> st, val |-> input]

\* unwrap of each value of vs, in order.
UnwrapEach(st, vs) ==
  IF vs = <<>> THEN [st |-> st, vals |-> <<>>]
  ELSE LET r == unwrap(st, Head(vs))
           rest == UnwrapEach(r.st, Tail(vs))
       IN  [st |-> rest.st, vals |-> <<r.val>> \o rest.vals]

\* One invocation of function id: the body of the thunk its factory returned.
Invoke(st0, id) ==
  LET st == Enter(st0, id)
      f == st.heap[id]
  IN  CASE f.kind = "fn" -> Return(st, id, f.ret)
        [] f.kind = "constant" -> Return(st, id, f.input)
        [] f.kind = "sequence" ->
             Return([st EXCEPT !.heap[id].i = @ + 1], id, SeqElem(f.data, f.i))
        [] f.kind = "array" ->
             LET r == UnwrapEach(st, [j \in 1 .. f.length |->
                                        ArraySource(f.items, j - 1)])
             IN  Return(r.st, id, VArr(r.vals))
        [] f.kind = "object" ->
             LET r == UnwrapEach(st, f.vals)
             IN  Return(r.st, id, VObj(f.keys, r.vals))
        [] f.kind = "join" ->
             LET r == UnwrapEach(st, f.input)
             IN  Return(r.st, id, VStr(JoinStrings(r.st.heap, r.vals, "")))
        [] f.kind = "transform" ->
             LET r == unwrap(st, f.input)
             IN  Return(r.st, id, Apply(f.callback, r.st.heap, r.val))

\* The module as loaded: nothing made yet.
NoOperation == [op |-> "load", arg |-> VUndef, val |-> VUndef, trace |-> <<>>]
NoAlgebra == heap = <<>> /\ returned = <<>> /\ last = NoOperation

NoNumeric == NoMountains /\ NoNumber /\ NoFloat /\ NoWave

\* The module as loaded: no generator made yet.
Init == NoAlgebra /\ NoNumeric

\* ------------------------------------------------------------ Random.mountains
MaxHeights == {0, 1, MaxHeightBound, MAX_HEIGHT_DEFAULT}
StepChanges == {0, 1, STEP_CHANGE_DEFAULT}

\* Mutant: the slope is clipped from above only.
ClipSlopeAbove(s) == IF s > STEP_MAX * Grid THEN STEP_MAX * Grid ELSE s

\* Lines 212-213: clip the slope to the maximum.
ClipSlope(s) ==
  LET s1 == IF s > STEP_MAX * Grid THEN STEP_MAX * Grid ELSE s
  IN  IF s1 < -(STEP_MAX * Grid) THEN -(STEP_MAX * Grid) ELSE s1

\* mountains(maxHeight, stepChange): the state after construction, the two
\* arguments already resolved by unwrap.
MountainsInit ==
  \E mh \in MaxHeights, sc \in StepChanges, k1 \in Draws, k2 \in Draws :
    /\ MAX_HEIGHT = mh * Grid
    /\ STEP_CHANGE = sc * Grid
    /\ currentHeight = MulRandom(k1, mh * Grid)
    /\ slope = MulRandom(k2, STEP_MAX * Grid) * 2 - STEP_MAX * Grid
    /\ heights = <<>>

\* Mutant: the height is not stopped at 0.
MountainsStepNoFloor(k) ==
  LET h1 == currentHeight + slope
      s1 == ClipSlope(slope + MulRandom(k, STEP_CHANGE) * 2 - STEP_CHANGE)
      over == h1 > MAX_HEIGHT
      h2 == IF over THEN MAX_HEIGHT ELSE h1
      s2 == IF over THEN -s1 ELSE s1
  IN  /\ currentHeight' = h2
      /\ slope' = s2
      /\ heights' = IF heights = <<>> THEN <<h2>>
                    ELSE <<heights[Len(heights)], h2>>
      /\ UNCHANGED <<MAX_HEIGHT, STEP_CHANGE>>

\* One invocation of the thunk, lines 207-224, with the draw k / Grid.
MountainsStep(k) ==
  LET h1 == currentHeight + slope
      s1 == ClipSlope(slope + MulRandom(k, STEP_CHANGE) * 2 - STEP_CHANGE)
      over == h1 > MAX_HEIGHT
      h2 == IF over THEN MAX_HEIGHT ELSE h1
      s2 == IF over THEN -s1 ELSE s1
      under == h2 < 0
      h3 == IF under THEN 0 ELSE h2
      s3 == IF under THEN -s2 ELSE s2
  IN  /\ currentHeight' = h3
      /\ slope' = s3
      /\ heights' = IF heights = <<>> THEN <<h3>>
                    ELSE <<heights[Len(heights)], h3>>
      /\ UNCHANGED <<MAX_HEIGHT, STEP_CHANGE>>

MountainsInvoke ==
  /\ \E k \in Draws : MountainsStep(k)
  /\ UNCHANGED <<numVars, floatVars, waveVars, algVars>>

MountainsNext == MountainsInvoke

InitMountains == MountainsInit /\ NoNumber /\ NoFloat /\ NoWave /\ NoAlgebra

SpecMountains == InitMountains /\ [][MountainsNext]_vars

\* C1: every value a mountains thunk returns lies in [0, maxHeight].
MountainsInRange ==
  \A n \in DOMAIN heights : 0 <= heights[n] /\ heights[n] <= MAX_HEIGHT

\* The thunk of mountains(50, stepChange) was stopped at the top and bounced.
MountainsBounced ==
  /\ MAX_HEIGHT = MAX_HEIGHT_DEFAULT * Grid
  /\ Len(heights) = 2
  /\ heights[1] < MAX_HEIGHT
  /\ heights[2] = MAX_HEIGHT
  /\ slope < 0

number(min, max) == [min |-> min, max |-> JsAdd(max, Small(1))]

\* The thunk of number, line 240, with the draw k / Grid:
\* Math.floor((Math.random() * (max - min)) + min).
NumberThunk(f, k) ==
  JsFloor(JsAdd(JsMul(Random(k), JsSub(f.max, f.min)), f.min))

\* min <= max, both whole numbers: of small magnitude, or in [2^52, 2^53).
NumberInit ==
  \E b \in {0, 1} :
    \E lo \in (IF b = 1 THEN 0 ELSE -NumBound) .. NumBound :
      \E hi \in lo .. NumBound :
        LET f == number(Num(b, lo * Scale), Num(b, hi * Scale))
        IN  /\ nMin = f.min /\ nMax = f.max /\ nReturned = <<>>
            /\ nArgs = [min |-> Num(b, lo * Scale), max |-> Num(b, hi * Scale)]

NumberInvoke ==
  /\ \E k \in Draws :
       nReturned' = <<NumberThunk([min |-> nMin, max |-> nMax], k)>>
  /\ UNCHANGED <<nMin, nMax, nArgs, mtVars, floatVars, waveVars, algVars>>

NumberNext == NumberInvoke

InitNumber == NumberInit /\ NoMountains /\ NoFloat /\ NoWave /\ NoAlgebra

SpecNumber == InitNumber /\ [][NumberNext]_vars

\* C8: for whole numbers min <= max, every value a number(min, max) thunk
\* returns is a whole number of [min, max], never max + 1.
NumberInRange ==
  \A n \in DOMAIN nReturned :
    /\ nReturned[n].big = nArgs.min.big
    /\ nReturned[n].u % Scale = 0
    /\ nArgs.min.u <= nReturned[n].u
    /\ nReturned[n].u <= nArgs.max.u

\* ---------------------------------------------------------------- Random.float
\* The thunk of float, lines 131-134, with the draw k / Grid, for min and max
\* in units of 1 / Scale: result = Math.random() * (max - min) + min, here in
\* units of 1 / (Scale * Grid), then Math.floor(result * 10^precision); the
\* value returned is that whole number divided by 10^precision, kept in units
\* of 10^-precision.
FloatThunk(min, max, precision, k) ==
  LET result == k * (max - min) + min * Grid
  IN  (result * Pow(10, precision)) \div (Scale * Grid)

FloatInit ==
  \E lo \in (-FloatBound * Scale) .. (FloatBound * Scale) :
    \E hi \in (lo + 1) .. (FloatBound * Scale) :
      \E p \in 0 .. MaxPrecision :
        fMin = lo /\ fMax = hi /\ fPrecision = p /\ fReturned = <<>>

FloatInvoke ==
  /\ \E k \in Draws :
       fReturned' = <<FloatThunk(fMin, fMax, fPrecision, k)>>
  /\ UNCHANGED <<fMin, fMax, fPrecision, mtVars, numVars, waveVars, algVars>>

FloatNext == FloatInvoke

InitFloat == FloatInit /\ NoMountains /\ NoNumber /\ NoWave /\ NoAlgebra

SpecFloat == InitFloat /\ [][FloatNext]_vars

\* C6: for min < max, every value a float(min, max, precision) thunk returns
\* lies in [min, max) (it is a multiple of 10^-precision by its units).
FloatInRange ==
  \A n \in DOMAIN fReturned :
    /\ fMin * Pow(10, fPrecision) <= fReturned[n] * Scale
    /\ fReturned[n] * Scale < fMax * Pow(10, fPrecision)

\* ----------------------------------------------------------------- Random.wave
\* Angles are whole numbers of quarter turns (pi / 2), where the sine is
\* -1, 0 or 1.
SinQuarter(q) ==
  CASE q % 4 = 0 -> 0
    [] q % 4 = 1 -> 1
    [] q % 4 = 2 -> 0
    [] q % 4 = 3 -> -1

\* count and repeat with (2 * pi) / (count / repeat) a whole number of quarter
\* turns; shift in quarter turns.
WaveCounts == {1, 2, 4}
WaveRepeats == {1, 2}
WaveShifts == {0, 1}

\* wave(count, size, repeat, shift, noise): lines 333-338, the arguments
\* already resolved by unwrap. Lengths are in units of 1 / Scale.
WaveInit ==
  \E count \in WaveCounts, size \in 0 .. MaxSize, repeat \in WaveRepeats,
     shift \in WaveShifts, noise \in 0 .. MaxNoise :
    /\ wI = 0
    /\ amplitude = (size * Scale) \div 2
    /\ frequency = (4 * repeat) \div count
    /\ phase = shift + 1
    /\ vShift = (size * Scale) \div 2
    /\ noiseShift = number(Num(0, -((noise * Scale) \div 2)),
                           Num(0, (noise * Scale) \div 2))
    /\ wNoise = noise
    /\ wReturned = <<>>
    /\ wDraws = <<>>

\* Mutant: the offset is drawn by the first invocation and kept.
WaveStepOneOffset(k) ==
  LET point == amplitude * SinQuarter(frequency * wI - phase) + vShift
               + NumberThunk(noiseShift,
                             IF wDraws = <<>> THEN k ELSE wDraws[1]).u
  IN  /\ wI' = wI + 1
      /\ wReturned' = Append(wReturned, point)
      /\ wDraws' = Append(wDraws, k)
      /\ UNCHANGED <<amplitude, frequency, phase, vShift, noiseShift, wNoise>>

\* One invocation of the thunk, lines 340-341, with the draw k / Grid:
\* (amplitude * Math.sin((frequency * i++) - phase)) + vShift + noiseShift().
WaveStep(k) ==
  LET point == amplitude * SinQuarter(frequency * wI - phase) + vShift
               + NumberThunk(noiseShift, k).u
  IN  /\ wI' = wI + 1
      /\ wReturned' = Append(wReturned, point)
      /\ wDraws' = Append(wDraws, k)
      /\ UNCHANGED <<amplitude, frequency, phase, vShift, noiseShift, wNoise>>

WaveInvoke ==
  /\ wI < MaxWaveCalls
  /\ \E k \in Draws : WaveStep(k)
  /\ UNCHANGED <<mtVars, numVars, floatVars, algVars>>

WaveNext == WaveInvoke

InitWave == WaveInit /\ NoMountains /\ NoNumber /\ NoFloat /\ NoAlgebra

SpecWave == InitWave /\ [][WaveNext]_vars

\* What the n-th invocation returned, less the sine term and the amplitude.
Residual(n) ==
  wReturned[n] - amplitude * SinQuarter(frequency * (n - 1) - phase) - amplitude

Start == [heap |-> heap, returned |-> returned, trace |-> <<>>]

\* The functions made so far, as values.
Functions == {VFn(id) : id \in DOMAIN heap}

\* The factories: each gives the new function, and the state its evaluation
\* left (only sequence evaluates anything).
\* The caller writes a function () => v.
function(st, v) == [st |-> st, fn |-> UserFn(v)]

\* Random.constant(input), lines 84-88.
constant(st, input) == [st |-> st, fn |-> [kind |-> "constant", input |-> input]]

\* Random.sequence(data), lines 285-290: i = 0 and data = unwrap(data).
sequence(st, data) ==
  LET r == unwrap(st, data)
  IN  [st |-> r.st, fn |-> [kind |-> "sequence", data |-> r.val, i |-> 0]]

\* Random.array(length, items), lines 51-60.
array(st, length, items) ==
  [st |-> st, fn |-> [kind |-> "array", length |-> length, items |-> items]]

\* Mutant: the values are resolved once, when the thunk is made.
objectResolvedOnce(st, keys, vals) ==
  LET r == UnwrapEach(st, vals)
  IN  [st |-> r.st, fn |-> [kind |-> "object", keys |-> keys, vals |-> r.vals]]

\* Random.object(input), lines 262-273: input has the own properties keys, in
\* this order, with the values vals.
object(st, keys, vals) ==
  [st |-> st, fn |-> [kind |-> "object", keys |-> keys, vals |-> vals]]

\* Random.join(...args), lines 164-173.
join(st, args) == [st |-> st, fn |-> [kind |-> "join", input |-> Flatten(args)]]

\* Random.transform(input, callback), lines 307-311.
transform(st, input, callback) ==
  [st |-> st,
   fn |-> [kind |-> "transform", input |-> input, callback |-> callback]]

\* The caller keeps the function a factory made: the state with it.
Keep(made) ==
  [heap |-> Append(made.st.heap, made.fn),
   returned |-> Append(made.st.returned, <<>>),
   trace |-> made.st.trace]

Make(made) ==
  /\ Len(heap) < MaxHeap
  /\ heap' = Keep(made).heap
  /\ returned' = Keep(made).returned
  /\ last' = [op |-> "new", arg |-> VUndef, val |-> VFn(Len(heap) + 1),
              trace |-> made.st.trace]
  /\ UNCHANGED numericVars

\* The caller invokes function id, for at most the n-th time.
CallUpTo(id, n) ==
  /\ Len(returned[id]) < n
  /\ LET r == Invoke(Start, id)
     IN  /\ heap' = r.st.heap
         /\ returned' = r.st.returned
         /\ last' = [op |-> "call", arg |-> VFn(id), val |-> r.val,
                     trace |-> r.st.trace]
  /\ UNCHANGED numericVars

Call(id) == CallUpTo(id, MaxCalls)

\* The caller calls the exported unwrap(input).
Unwrap(input) ==
  /\ Callable(input) => Len(returned[input.id]) < MaxCalls
  /\ LET r == unwrap(Start, input)
     IN  /\ heap' = r.st.heap
         /\ returned' = r.st.returned
         /\ last' = [op |-> "unwrap", arg |-> input, val |-> r.val,
                     trace |-> r.st.trace]
  /\ UNCHANGED numericVars

\* ---- unwrap and constant: functions of the caller, constant thunks, unwrap
ChainLiterals == {VStr("x")}
ChainValues == ChainLiterals \cup Functions

MakeFunction == \E v \in ChainValues : Make(function(Start, v))
MakeConstant == \E v \in ChainValues : Make(constant(Start, v))
CallFunction == \E id \in DOMAIN heap : Call(id)
CallUnwrap == \E v \in ChainValues : Unwrap(v)

UnwrapNext == MakeFunction \/ MakeConstant \/ CallFunction \/ CallUnwrap

SpecUnwrap == Init /\ [][UnwrapNext]_vars

\* How often function id was invoked during the last operation.
Invocations(id) == Cardinality({n \in DOMAIN last.trace : last.trace[n] = id})

\* What a chain of ordinary functions starting at v leads to: the first value
\* that is not a function of the caller.
RECURSIVE ChainEnd(_)
ChainEnd(v) ==
  IF v.k = "fn" /\ heap[v.id].kind = "fn" THEN ChainEnd(heap[v.id].ret) ELSE v

\* C3: constant(f) returns f on every invocation; unwrap of a value whose
\* chain of ordinary thunks leads to constant(f) returns f itself, invoking
\* the constant thunk once and f not at all.
ConstantVerbatim ==
  /\ \A id \in DOMAIN heap :
       heap[id].kind = "constant" =>
         \A n \in DOMAIN returned[id] : returned[id][n] = heap[id].input
  /\ last.op = "unwrap" =>
       LET c == ChainEnd(last.arg)
       IN  (c.k = "fn" /\ heap[c.id].kind = "constant") =>
             /\ last.val = heap[c.id].input
             /\ Invocations(c.id) = 1
             /\ heap[c.id].input.k = "fn" =>
                  Invocations(heap[c.id].input.id) = 0

\* unwrap of an ordinary thunk that leads to constant(f), f callable, after
\* the constant thunk was invoked twice.
UnwrapReachedConstant ==
  /\ last.op = "unwrap"
  /\ last.arg.k = "fn"
  /\ heap[last.arg.id].kind = "fn"
  /\ LET c == ChainEnd(last.arg)
     IN  /\ c.k = "fn"
         /\ heap[c.id].kind = "constant"
         /\ heap[c.id].input.k = "fn"
         /\ last.val = heap[c.id].input
         /\ Len(returned[c.id]) >= 2

\* ---- join: functions of the caller, constant thunks, join thunks
JoinLiterals == {VStr("x")}
JoinValues == JoinLiterals \cup Functions
JoinParts == {VStr("a")} \cup Functions
\* join('a', v) and join(['a', v])
JoinArguments ==
  {<<VStr("a"), v>> : v \in JoinParts}
  \cup {<<VArr(<<VStr("a"), v>>)>> : v \in JoinParts}

JoinMakeFunction == \E v \in JoinLiterals : Make(function(Start, v))
JoinMakeConstant == \E v \in JoinValues : Make(constant(Start, v))
JoinMakeJoin == \E args \in JoinArguments : Make(join(Start, args))
JoinCall == \E id \in DOMAIN heap : Call(id)

JoinNext == JoinMakeFunction \/ JoinMakeConstant \/ JoinMakeJoin \/ JoinCall

SpecJoin == Init /\ [][JoinNext]_vars

\* The last operation invoked the thunk of join('a', constant(g)), with c the
\* constant thunk and g = () => 'x'.
JoinedConstantFunction(c, g) ==
  /\ last.op = "call"
  /\ heap[last.arg.id].kind = "join"
  /\ heap[last.arg.id].input = <<VStr("a"), VFn(c)>>
  /\ heap[c].kind = "constant"
  /\ heap[c].input = VFn(g)
  /\ heap[g] = UserFn(VStr("x"))

\* C4 as claimed: g is invoked once and its result is concatenated: 'ax'.
JoinInvokesConstantValue ==
  \A c, g \in DOMAIN heap :
    JoinedConstantFunction(c, g) =>
      last.val = VStr("ax") /\ Invocations(g) = 1

\* C4 as amended: the constant thunk is invoked once, g is not invoked, and
\* the string form of g is concatenated.
JoinKeepsConstantValue ==
  \A c, g \in DOMAIN heap :
    JoinedConstantFunction(c, g) =>
      /\ last.val = VStr("a() => 'x'")
      /\ Invocations(c) = 1
      /\ Invocations(g) = 0

\* The thunk of join('a', constant(() => 'x')) was invoked.
JoinOfConstantInvoked ==
  \E c, g \in DOMAIN heap : JoinedConstantFunction(c, g)

\* ---- array: literals (falsy ones too), constant generators, array thunks
ArrayLiterals == {VNum(0), VNum(1), VStr(""), VBool(FALSE)}
ArrayValues == ArrayLiterals \cup Functions
\* items: left out, one generator or truthy value, or an array of one or two
\* entries
ArrayItems ==
  {VUndef, VNum(1)} \cup Functions
  \cup {VArr(<<v>>) : v \in ArrayValues}
  \cup {VArr(<<v, w>>) : v \in ArrayValues, w \in ArrayValues}

ArrayMakeConstant == \E v \in {VNum(1)} : Make(constant(Start, v))
ArrayMakeArray ==
  /\ Cardinality({id \in DOMAIN heap : heap[id].kind = "array"}) < MaxArrays
  /\ \E length \in 0 .. MaxLength, items \in ArrayItems :
       Make(array(Start, length, items))
ArrayCall == \E id \in DOMAIN heap : Call(id)

ArrayNext == ArrayMakeConstant \/ ArrayMakeArray \/ ArrayCall

SpecArray == Init /\ [][ArrayNext]_vars

\* The element source of slot i as C7 states it: the entry items[i] when
\* items has one, else items when it is a single generator or value, else i.
ClaimedSource(items, i) ==
  IF items.k = "arr" /\ i < Len(items.e) THEN items.e[i + 1]
  ELSE IF items.k \notin {"arr", "undef"} THEN items
  ELSE VNum(i)

\* C7: the result of an array(length, items) thunk has length elements, and
\* element i is the unwrapped source of slot i as stated (a slot past the end
\* of an items array is left open).
ArrayElementsAsClaimed ==
  (last.op = "call" /\ heap[last.arg.id].kind = "array") =>
    LET f == heap[last.arg.id]
    IN  /\ last.val.k = "arr"
        /\ Len(last.val.e) = f.length
        /\ \A i \in 0 .. (f.length - 1) :
             (f.items.k = "arr" => i < Len(f.items.e)) =>
               last.val.e[i + 1] = unwrap(Start, ClaimedSource(f.items, i)).val

\* ---- sequence: arrays, constant generators of arrays, sequence thunks
\* The arrays ['a'], ['a', 'b'], ['a', 'b', 'c'], ...
Letters == <<"a", "b", "c", "d", "e">>
Datas == {VArr([j \in 1 .. n |-> VStr(Letters[j])]) : n \in 1 .. MaxLen}

\* The state after the caller made g = constant(data) and two sequence thunks
\* of the same array, each given the array itself or the generator g of it.
SequenceInit ==
  \E d \in Datas, viaFirst \in BOOLEAN, viaSecond \in BOOLEAN :
    LET empty == [heap |-> <<>>, returned |-> <<>>, trace |-> <<>>]
        g == Keep(constant(empty, d))
        s == Keep(sequence([g EXCEPT !.trace = <<>>],
                           IF viaFirst THEN VFn(1) ELSE d))
        t == Keep(sequence([s EXCEPT !.trace = <<>>],
                           IF viaSecond THEN VFn(1) ELSE d))
    IN  /\ heap = t.heap
        /\ returned = t.returned
        /\ last = [op |-> "new", arg |-> VUndef, val |-> VFn(Len(t.heap)),
                   trace |-> t.trace]

SeqCall ==
  \E id \in DOMAIN heap :
    CallUpTo(id, IF heap[id].kind = "sequence" THEN MaxSeqCalls ELSE MaxCalls)

SequenceNext == SeqCall

InitSequence == SequenceInit /\ NoNumeric

SpecSequence == InitSequence /\ [][SequenceNext]_vars

\* Function id is a sequence thunk over a non-empty array.
IsSequence(id) ==
  /\ heap[id].kind = "sequence"
  /\ heap[id].data.k = "arr"
  /\ Len(heap[id].data.e) > 0

\* Element n mod L of the array of sequence thunk id.
RoundRobin(id, n) == heap[id].data.e[(n % Len(heap[id].data.e)) + 1]

\* C2: the n-th invocation (n = 0, 1, ...) of a sequence thunk returns
\* data[n mod L], whatever else was invoked, and its index is the number of
\* its invocations.
SequenceRoundRobin ==
  \A id \in DOMAIN heap :
    IsSequence(id) =>
      /\ heap[id].i = Len(returned[id])
      /\ \A n \in DOMAIN returned[id] : returned[id][n] = RoundRobin(id, n - 1)

\* sequence(['a','b','c']) invoked 7 times, beside another sequence thunk of
\* the same array invoked twice and another generator that was invoked.
SequenceSevenTimes ==
  \E s, t, g \in DOMAIN heap :
    /\ s # t
    /\ IsSequence(s) /\ IsSequence(t)
    /\ heap[s].data = heap[t].data
    /\ returned[s] = <<VStr("a"), VStr("b"), VStr("c"), VStr("a"), VStr("b"),
                       VStr("c"), VStr("a")>>
    /\ Len(returned[t]) = 2
    /\ heap[g].kind = "constant" /\ Len(returned[g]) > 0

\* ---- combinators over generators: sequence, array, object, join, transform
Combinators == {"array", "object", "join", "transform"}

\* The sequence thunks made so far, as values.
Sequences == {v \in Functions : heap[v.id].kind = "sequence"}

\* The combinator thunks made so far.
CombinatorThunks == {id \in DOMAIN heap : heap[id].kind \in Combinators}

\* The caller makes one sequence thunk, then at most MaxCombinators thunks of
\* combinators over it (a transform also over another combinator thunk).
CombMakeSequence == heap = <<>> /\ \E d \in Datas : Make(sequence(Start, d))
CombMakeArray ==
  /\ Cardinality(CombinatorThunks) < MaxCombinators
  /\ \E length \in 1 .. MaxLength, v \in Sequences :
       Make(array(Start, length, v))
CombMakeObject ==
  /\ Cardinality(CombinatorThunks) < MaxCombinators
  /\ \E v \in Sequences :
       \/ Make(object(Start, <<"a">>, <<v>>))
       \/ Make(object(Start, <<"a", "b">>, <<v, v>>))
CombMakeJoin ==
  /\ Cardinality(CombinatorThunks) < MaxCombinators
  /\ \E v \in Sequences : Make(join(Start, <<v>>))
CombMakeTransform ==
  /\ Cardinality(CombinatorThunks) < MaxCombinators
  /\ \E v \in Functions, cb \in Callbacks : Make(transform(Start, v, cb))
CombCall == \E id \in DOMAIN heap : Call(id)

CombinatorsNext ==
  \/ CombMakeSequence
  \/ CombMakeArray
  \/ CombMakeObject
  \/ CombMakeJoin
  \/ CombMakeTransform
  \/ CombCall

SpecCombinators == Init /\ [][CombinatorsNext]_vars

\* The inputs a combinator thunk resolves on an invocation, in order.
Inputs(f) ==
  CASE f.kind = "array" -> [j \in 1 .. f.length |-> f.items]
    [] f.kind = "object" -> f.vals
    [] f.kind = "join" -> f.input
    [] f.kind = "transform" -> <<f.input>>

\* What a combinator thunk assembles from the resolved inputs vs.
Assembled(f, vs) ==
  CASE f.kind = "array" -> VArr(vs)
    [] f.kind = "object" -> VObj(f.keys, vs)
    [] f.kind = "join" -> VStr(JoinStrings(heap, vs, ""))
    [] f.kind = "transform" -> Apply(f.callback, heap, vs[1])

\* The last operation invoked combinator thunk c, whose inputs are all the
\* sequence thunk s.
CombinatorOver(c, s) ==
  /\ last.op = "call"
  /\ last.arg = VFn(c)
  /\ heap[c].kind \in Combinators
  /\ IsSequence(s)
  /\ \A j \in DOMAIN Inputs(heap[c]) : Inputs(heap[c])[j] = VFn(s)

\* C9: making a combinator invokes nothing; every invocation of a combinator
\* over a sequence thunk s invokes s once per input and assembles its result
\* from what these invocations returned, the next round-robin elements.
CombinatorsResolvePerCall ==
  /\ (last.op = "new" /\ heap[last.val.id].kind \in Combinators) =>
       /\ last.trace = <<>>
       /\ returned[last.val.id] = <<>>
  /\ \A c, s \in DOMAIN heap :
       CombinatorOver(c, s) =>
         LET slots == Len(Inputs(heap[c]))
             before == Len(returned[s]) - slots
         IN  /\ Invocations(s) = slots
             /\ last.val = Assembled(heap[c],
                  [j \in 1 .. slots |-> RoundRobin(s, before + j - 1)])

\* The second invocation of the thunk of object({a: s}), s a sequence thunk
\* nothing else invoked: it observes the second element.
ObjectSawSecondElement ==
  \E c, s \in DOMAIN heap :
    /\ CombinatorOver(c, s)
    /\ heap[c].kind = "object"
    /\ heap[c].keys = <<"a">>
    /\ Len(returned[c]) = 2
    /\ Len(returned[s]) = 2
    /\ last.val = VObj(<<"a">>, <<VStr("b")>>)

====
